---- MODULE Spec2Model ----
(***************************************************************************)
(* Model of the RunPod serverless handler for LTX2 lipsync video jobs:     *)
(* src/src/rp_handler.py (handler), src/src/comfyui_api.py (ComfyUIClient) *)
(* and src/src/utils.py (validate_input, calculate_num_frames,             *)
(* download_file, get_duration_from_audio).                                *)
(*                                                                         *)
(* Python values are records [t, s, n]: t is the Python type, s the text   *)
(* of a str as a sequence of strings (single characters where the code     *)
(* looks at characters), n the number of an int or bool, or of a float     *)
(* counted in quarters (0.25 is exact in binary floating point, so         *)
(* products with small integers are exact too).                            *)
(*                                                                         *)
(* The rendering server, the object store, the file system, ffprobe and    *)
(* the HTTP downloads are the environment: each request is answered by one *)
(* of the replies the code distinguishes, chosen freely.  The clock moves  *)
(* only while wait_for_completion sleeps.                                  *)
(***************************************************************************)
EXTENDS Integers, Sequences, FiniteSets, TLC

VARIABLES
    pc,         \* the position of the call being modelled
    caller,     \* who called wait_for_completion: "handler" or "direct"
    vin,        \* validate_input: the job_input dictionary it is called with
    vout,       \* validate_input: the value it returned
    cin,        \* calculate_num_frames: its arguments [duration, fps]
    cout,       \* calculate_num_frames: its outcome [kind, value]
    job,        \* handler: the job dictionary
    h,          \* handler: its local variables
    w,          \* wait_for_completion: its arguments and local variables
    wret,       \* wait_for_completion: what it returned or raised
    files,      \* the staged files that exist in INPUT_DIR
    trace,      \* the external actions so far, a repeated one listed once
    posts,      \* how many POST /prompt requests were sent
    uploads,    \* the keys upload_file was called with
    failed_at,  \* handler: the step that failed, "" while none has
    outcome,    \* handler: what it returned or raised
    api,        \* the last call of queue_prompt or health_check: its reply and result
    server_queue, \* the prompt ids queued or running on the rendering server
    calls       \* how many handler calls were made one after another

pureVars == <<vin, vout, cin, cout>>
handlerVars == <<job, h, files, posts, uploads, failed_at, outcome>>
waitVars == <<caller, w, wret, trace>>
clientVars == <<api, server_queue, calls>>
vars == <<pc, pureVars, handlerVars, waitVars, clientVars>>

----------------------------------------------------------------------------
(* Python values *)

Absent == [t |-> "absent", s |-> <<>>, n |-> 0]   \* key not in the dictionary
PyNone == [t |-> "none", s |-> <<>>, n |-> 0]
PyStr(chars) == [t |-> "str", s |-> chars, n |-> 0]
PyInt(i) == [t |-> "int", s |-> <<>>, n |-> i]
PyBool(b) == [t |-> "bool", s |-> <<>>, n |-> IF b THEN 1 ELSE 0]
\* a float, given in quarters: PyFloat(30) is 7.5
PyFloat(q) == [t |-> "float", s |-> <<>>, n |-> q]
PyNaN == [t |-> "nan", s |-> <<>>, n |-> 0]       \* float('nan')
\* an int of magnitude 2^31 or more, n its sign
PyBigInt(sign) == [t |-> "bigint", s |-> <<>>, n |-> sign]
\* a list of n elements
PyList(len) == [t |-> "list", s |-> <<>>, n |-> len]

\* isinstance(v, str)
IsStr(v) == v.t = "str"

\* isinstance(v, (int, float)): bool is a subclass of int
IsNumber(v) == v.t \in {"int", "bool", "float", "nan", "bigint"}

\* bool(v)
Truthy(v) ==
    CASE v.t = "none" -> FALSE
      [] v.t = "str" -> Len(v.s) > 0
      [] v.t \in {"int", "bool", "float", "list"} -> v.n # 0
      [] OTHER -> TRUE

\* A range check that leaves out the two ends.
BetweenExclusive(lo, v, hi) ==
    CASE v.t \in {"int", "bool"} -> lo < v.n /\ v.n < hi
      [] v.t = "float" -> 4 * lo < v.n /\ v.n \div 4 < hi
      [] OTHER -> FALSE

\* lo <= v <= hi for integers lo, hi and a number v
Between(lo, v, hi) ==
    CASE v.t \in {"int", "bool"} -> lo <= v.n /\ v.n <= hi
      [] v.t = "float" -> lo <= v.n \div 4 /\ (v.n + 3) \div 4 <= hi
      [] OTHER -> FALSE      \* NaN compares false; 2^31 is beyond every range

Whitespace == {" ", "\t", "\n"}

RECURSIVE lstrip(_)
lstrip(s) == IF s # <<>> /\ Head(s) \in Whitespace THEN lstrip(Tail(s)) ELSE s

RECURSIVE rstrip(_)
rstrip(s) ==
    IF s # <<>> /\ s[Len(s)] \in Whitespace THEN rstrip(SubSeq(s, 1, Len(s) - 1)) ELSE s

\* str.strip()
strip(s) == rstrip(lstrip(s))

\* str.startswith(prefix)
startswith(s, prefix) ==
    Len(s) >= Len(prefix) /\ SubSeq(s, 1, Len(prefix)) = prefix

Http == <<"h", "t", "t", "p", ":", "/", "/">>
Https == <<"h", "t", "t", "p", "s", ":", "/", "/">>

\* s.startswith(('http://', 'https://'))
IsHttpUrl(s) == startswith(s, Http) \/ startswith(s, Https)

----------------------------------------------------------------------------
(* utils.validate_input *)

Fields ==
    {"prompt", "audio_url", "num_frames", "fps", "width", "height", "cfg_scale",
     "steps", "seed", "reference_image_url"}

\* field in job_input
Has(job_input, field) == job_input[field].t # "absent"

\* The numeric fields in alphabetical order.
numeric_fields_sorted ==
    << [field |-> "cfg_scale", lo |-> 1, hi |-> 30],
       [field |-> "fps", lo |-> 1, hi |-> 60],
       [field |-> "height", lo |-> 64, hi |-> 2048],
       [field |-> "num_frames", lo |-> 1, hi |-> 1000],
       [field |-> "seed", lo |-> -1, hi |-> 2147483647],
       [field |-> "steps", lo |-> 1, hi |-> 150],
       [field |-> "width", lo |-> 64, hi |-> 2048] >>

\* the dictionary numeric_fields, in its insertion order
numeric_fields ==
    << [field |-> "num_frames", lo |-> 1, hi |-> 1000],
       [field |-> "fps", lo |-> 1, hi |-> 60],
       [field |-> "width", lo |-> 64, hi |-> 2048],
       [field |-> "height", lo |-> 64, hi |-> 2048],
       [field |-> "cfg_scale", lo |-> 1, hi |-> 30],
       [field |-> "steps", lo |-> 1, hi |-> 150],
       [field |-> "seed", lo |-> -1, hi |-> 2147483647] >>

\* What validate_input returns: None, or a message. A message is kept as
\* its parts: the field its text quotes, which text it is, and the numbers
\* the "must be between" text interpolates.
NoError == [field |-> "", kind |-> "None", lo |-> 0, hi |-> 0]
Message(field, kind) == [field |-> field, kind |-> kind, lo |-> 0, hi |-> 0]

\* the loop over numeric_fields.items(), from item i on
RECURSIVE NumericLoop(_, _)
NumericLoop(job_input, i) ==
    IF i > Len(numeric_fields) THEN NoError
    ELSE LET nf == numeric_fields[i]
             value == job_input[nf.field]
         IN  IF ~Has(job_input, nf.field) THEN NumericLoop(job_input, i + 1)
             ELSE IF ~IsNumber(value) THEN Message(nf.field, "must be a number")
             ELSE IF ~Between(nf.lo, value, nf.hi)
                  THEN [field |-> nf.field, kind |-> "must be between",
                        lo |-> nf.lo, hi |-> nf.hi]
             ELSE NumericLoop(job_input, i + 1)

\* the checks of reference_image_url
ReferenceCheck(job_input) ==
    LET ref_url == job_input["reference_image_url"]
    IN  IF ~Has(job_input, "reference_image_url") THEN NoError
        ELSE IF Truthy(ref_url) /\ ~IsStr(ref_url)
             THEN Message("reference_image_url", "must be a string")
        ELSE IF Truthy(ref_url) /\ ~IsHttpUrl(ref_url.s)
             THEN Message("reference_image_url", "must be a valid HTTP(S) URL")
        ELSE NoError

validate_input(job_input) ==
    IF ~Has(job_input, "prompt") THEN Message("prompt", "Missing required field")
    ELSE IF ~Has(job_input, "audio_url")
         THEN Message("audio_url", "Missing required field")
    ELSE IF ~IsStr(job_input["prompt"]) \/ Len(strip(job_input["prompt"].s)) = 0
         THEN Message("prompt", "must be a non-empty string")
    ELSE IF ~IsStr(job_input["audio_url"]) \/ ~IsHttpUrl(job_input["audio_url"].s)
         THEN Message("audio_url", "must be a valid HTTP(S) URL")
    ELSE IF NumericLoop(job_input, 1) # NoError THEN NumericLoop(job_input, 1)
    ELSE ReferenceCheck(job_input)

----------------------------------------------------------------------------
(* utils.calculate_num_frames *)

\* A float or int argument as the class of its value: finite (v in
\* quarters), huge (finite, of magnitude 1e308: v is its sign), infinite
\* (v its sign) or NaN.
Finite(q) == [c |-> "fin", v |-> q]
Huge(sign) == [c |-> "huge", v |-> sign]
Inf(sign) == [c |-> "inf", v |-> sign]
NaN == [c |-> "nan", v |-> 0]

Sign(i) == IF i > 0 THEN 1 ELSE IF i < 0 THEN -1 ELSE 0

\* duration * fps in IEEE double arithmetic; a finite product is in
\* sixteenths. 1e308 times a factor of magnitude 2 or more overflows to an
\* infinity; infinity times zero is NaN.
FloatMul(a, b) ==
    CASE a.c = "nan" \/ b.c = "nan" -> NaN
      [] a.c = "fin" /\ b.c = "fin" -> [c |-> "fin16", v |-> a.v * b.v]
      [] a.c = "inf" /\ b.c = "fin" ->
            IF b.v = 0 THEN NaN ELSE Inf(a.v * Sign(b.v))
      [] a.c = "fin" /\ b.c = "inf" ->
            IF a.v = 0 THEN NaN ELSE Inf(b.v * Sign(a.v))
      [] a.c = "huge" /\ b.c = "fin" ->
            IF b.v = 0 THEN [c |-> "fin16", v |-> 0]
            ELSE IF b.v >= 8 \/ b.v <= -8 THEN Inf(a.v * Sign(b.v))
            ELSE Huge(a.v * Sign(b.v))
      [] a.c = "fin" /\ b.c = "huge" ->
            IF a.v = 0 THEN [c |-> "fin16", v |-> 0]
            ELSE IF a.v >= 8 \/ a.v <= -8 THEN Inf(b.v * Sign(a.v))
            ELSE Huge(b.v * Sign(a.v))
      [] OTHER -> Inf(a.v * b.v)    \* huge or infinite times huge or infinite

\* A conversion that rounds up instead of truncating.
IntOfCeiling(x) ==
    CASE x.c = "fin16" -> [kind |-> "int", value |-> -((-x.v) \div 16)]
      [] x.c = "huge" -> [kind |-> "bigint", value |-> x.v]
      [] x.c = "inf" -> [kind |-> "OverflowError", value |-> 0]
      [] OTHER -> [kind |-> "ValueError", value |-> 0]

\* int(x) of a float: truncation toward zero; raises on infinity and NaN.
\* The int of a huge float is kept as its sign only.
IntOf(x) ==
    CASE x.c = "fin16" ->
            [kind |-> "int",
             value |-> IF x.v >= 0 THEN x.v \div 16 ELSE -((-x.v) \div 16)]
      [] x.c = "huge" -> [kind |-> "bigint", value |-> x.v]
      [] x.c = "inf" -> [kind |-> "OverflowError", value |-> 0]
      [] OTHER -> [kind |-> "ValueError", value |-> 0]

Min(a, b) == IF a <= b THEN a ELSE b
Max(a, b) == IF a >= b THEN a ELSE b

\* A clamp without its lower end.
ClampAbove(num_frames) ==
    IF num_frames.kind = "bigint"
    THEN (IF num_frames.value > 0 THEN 1000 ELSE 24)
    ELSE Min(num_frames.value, 1000)

\* max(24, min(num_frames, 1000))
Clamp(num_frames) ==
    IF num_frames.kind = "bigint"
    THEN (IF num_frames.value > 0 THEN 1000 ELSE 24)
    ELSE Max(24, Min(num_frames.value, 1000))

\* the outcome of calculate_num_frames(duration, fps): the int it returns
\* or the exception it raises
calculate_num_frames(duration, fps) ==
    LET num_frames == IntOf(FloatMul(duration, fps))
    IN  IF num_frames.kind \in {"int", "bigint"}
        THEN [kind |-> "return", value |-> Clamp(num_frames)]
        ELSE [kind |-> num_frames.kind, value |-> 0]

----------------------------------------------------------------------------
(* comfyui_api.ComfyUIClient *)

\* An exception: its class and str(e)
Exc(type, text) == [type |-> type, text |-> text]
NoExc == Exc("", "")

\* What get_history returns, history.get(prompt_id): None (present FALSE),
\* while the server has not run the prompt to its end, or the entry, a dictionary with or without the keys 'error', 'status' and
\* 'outputs'.  status is "absent", "success" or "error" ({'status_str': ..}),
\* or "null" (the value None); outputs is "absent", "empty" ({}), "null" or
\* "video" ({'video': {'filename': video}}).
NoHistory ==
    [present |-> FALSE, has_error |-> FALSE, error |-> "", status |-> "absent",
     outputs |-> "absent", video |-> ""]

EmptyHistory == [NoHistory EXCEPT !.present = TRUE]

\* the dictionary {"error": error_msg}
ErrorResult(error_msg) ==
    [EmptyHistory EXCEPT !.has_error = TRUE, !.error = error_msg]

VideoNames == {"out.mp4"}

HistoryEntries ==
    {NoHistory} \cup
    { [present |-> TRUE, has_error |-> e # "", error |-> e, status |-> s,
       outputs |-> o, video |-> IF o = "video" THEN v ELSE ""] :
         e \in {"", "CUDA out of memory"}, s \in {"absent", "success", "error", "null"},
         o \in {"absent", "empty", "null", "video"}, v \in VideoNames }

\* bool(history): None and the empty dictionary are false
HistoryTruthy(history) ==
    /\ history.present
    /\ history.has_error \/ history.status # "absent" \/ history.outputs # "absent"

\* A timeout check that is one second late.
TimedOutLate(elapsed, timeout) == elapsed > timeout + 1

\* elapsed > timeout
TimedOut(elapsed, timeout) == elapsed > timeout

Return(success, result) ==
    [kind |-> "return", success |-> success, result |-> result, exc |-> NoExc]
Raise(exc) ==
    [kind |-> "raise", success |-> FALSE, result |-> NoHistory, exc |-> exc]
Running == [kind |-> "none", success |-> FALSE, result |-> NoHistory, exc |-> NoExc]

\* A loop that takes every entry the server holds for a finished run.
CheckHistoryAnyEntry(history) ==
    IF ~HistoryTruthy(history) THEN Running
    ELSE IF history.has_error THEN Return(FALSE, ErrorResult(history.error))
    ELSE Return(TRUE, history)

\* A loop that looks for the outputs before it looks for the error.
CheckHistoryDoneFirst(history) ==
    IF ~HistoryTruthy(history) THEN Running
    ELSE IF history.status = "success" \/ history.outputs # "absent"
         THEN Return(TRUE, history)
    ELSE IF history.has_error THEN Return(FALSE, ErrorResult(history.error))
    ELSE Running

\* the body of "if history:": what the loop does with the entry it
\* fetched.  kind "none" is: go on to the queue check.
CheckHistory(history) ==
    IF ~HistoryTruthy(history) THEN Running
    ELSE IF history.has_error THEN Return(FALSE, ErrorResult(history.error))
    ELSE IF history.status = "null"
         THEN Raise(Exc("AttributeError", "'NoneType' object has no attribute 'get'"))
    ELSE IF history.status = "success" \/ history.outputs # "absent"
         THEN Return(TRUE, history)
    ELSE Running

\* trace with one more external action
Log(tr, action) ==
    IF tr # <<>> /\ tr[Len(tr)] = action THEN tr ELSE Append(tr, action)

\* the frame of wait_for_completion(prompt_id, timeout, check_interval) at
\* start_time; exc is the exception raised inside the loop, NoExc while
\* there is none
WaitFrame(prompt_id, timeout, check_interval) ==
    [prompt_id |-> prompt_id, timeout |-> timeout, check_interval |-> check_interval,
     elapsed |-> 0, history |-> NoHistory, polls |-> 0, exc |-> NoExc]

\* no call of wait_for_completion in progress
NoFrame == WaitFrame(Absent, 0, 1)

\* _make_request raises what the session raised, or the HTTPError of
\* raise_for_status
RequestErrors ==
    { Exc("ConnectionError", "connection refused"),
      Exc("HTTPError", "500 Server Error") }

\* The answer to one HTTP request, as far as the client looks at it: exc is
\* what _make_request raises (NoExc when the status is 2xx), body what the
\* response holds ("dict" or "list" for JSON of that type, "not_json" for a
\* body response.json() cannot parse), prompt_id the value of that key of a
\* JSON dictionary, Absent without the key.
Reply(exc, body, prompt_id) == [exc |-> exc, body |-> body, prompt_id |-> prompt_id]
FailedReply(e) == Reply(e, "none", Absent)
NoReply == Reply(NoExc, "none", Absent)

\* the ids the server gives to prompts
PromptIds == {PyStr(<<"prompt-123">>), PyInt(7)}

\* the answers to POST /prompt
PromptReplies ==
    {FailedReply(e) : e \in RequestErrors}
        \cup {Reply(NoExc, "not_json", Absent), Reply(NoExc, "list", Absent)}
        \cup {Reply(NoExc, "dict", v) :
                 v \in PromptIds \cup {Absent, PyNone, PyStr(<<>>), PyInt(0)}}

\* the answers to GET /system_stats
StatsReplies ==
    {FailedReply(e) : e \in RequestErrors \cup {Exc("Timeout", "read timed out")}}
        \cup {Reply(NoExc, b, Absent) : b \in {"not_json", "dict", "list"}}

\* what a client method returns or raises
CallReturn(value) == [kind |-> "return", value |-> value, exc |-> NoExc]
CallRaise(exc) == [kind |-> "raise", value |-> PyNone, exc |-> exc]
NotCalled == [kind |-> "none", value |-> PyNone, exc |-> NoExc]

\* _make_request(...) followed by response.json(): the JSON value (its type
\* as a string) or the exception
RequestJson(reply) ==
    IF reply.exc # NoExc THEN CallRaise(reply.exc)
    ELSE IF reply.body = "not_json"
    THEN CallRaise(Exc("JSONDecodeError", "Expecting value"))
    ELSE CallReturn(PyStr(<<reply.body>>))

\* A queue_prompt that returns whatever result.get('prompt_id') gave.
queue_prompt_unchecked(reply) ==
    LET result == RequestJson(reply)
    IN  IF result.kind = "raise" THEN result
        ELSE IF reply.body = "list"
        THEN CallRaise(Exc("AttributeError", "'list' object has no attribute 'get'"))
        ELSE CallReturn(IF reply.prompt_id = Absent THEN PyNone ELSE reply.prompt_id)

\* queue_prompt(workflow), given the answer to its POST /prompt
queue_prompt(reply) ==
    LET result == RequestJson(reply)
    IN  IF result.kind = "raise" THEN result
        ELSE IF reply.body = "list"
        THEN CallRaise(Exc("AttributeError", "'list' object has no attribute 'get'"))
        ELSE LET prompt_id == IF reply.prompt_id = Absent THEN PyNone
                              ELSE reply.prompt_id
             IN  IF ~Truthy(prompt_id)
                 THEN CallRaise(Exc("ValueError", "No prompt_id returned from ComfyUI"))
                 ELSE CallReturn(prompt_id)

\* the server's queue after it answered POST /prompt with reply: a prompt it
\* gave an id to is queued
Accept(queue, reply) ==
    IF reply.exc = NoExc /\ reply.body = "dict" /\ reply.prompt_id \in PromptIds
    THEN queue \cup {reply.prompt_id} ELSE queue

\* get_system_stats(), given the answer to its GET /system_stats
get_system_stats(reply) == RequestJson(reply)

\* A health_check that catches the failures of the connection only.
HealthCaughtConnectionOnly(exc) == exc.type = "ConnectionError"

\* "except Exception" of health_check
HealthCaught(exc) == exc.type # ""

\* health_check(), given the answer to its GET /system_stats
health_check(reply) ==
    LET stats == get_system_stats(reply)
    IN  IF stats.kind = "return" THEN CallReturn(PyBool(TRUE))
        ELSE IF HealthCaught(stats.exc) THEN CallReturn(PyBool(FALSE))
        ELSE stats

\* a call of a client method: n counts the calls
Call(method, reply, result, n) ==
    [method |-> method, reply |-> reply, result |-> result, n |-> n]
NoCall == Call("", NoReply, NotCalled, 0)

\* A loop that goes on to its next round when a request failed.
RetryNextPoll(exc) == [wret |-> Running, pc |-> "wait_for_completion"]

\* The loop has no try: an exception raised inside it leaves
\* wait_for_completion.
Propagate(exc) == [wret |-> Raise(exc), pc |-> "wait_done"]

\* The top of the loop: the timeout check, then get_history and the checks
\* of the entry.
PollHistory ==
    /\ pc = "wait_for_completion"
    /\ IF TimedOut(w.elapsed, w.timeout)
       THEN /\ wret' = Return(FALSE, ErrorResult("Execution timeout"))
            /\ pc' = "wait_done"
            /\ UNCHANGED <<w, trace, server_queue>>
       ELSE /\ trace' = Log(trace, "poll")
            /\ \/ \E e \in RequestErrors :
                    /\ wret' = Propagate(e).wret
                    /\ pc' = Propagate(e).pc
                    /\ w' = [w EXCEPT !.polls = @ + 1, !.exc = e]
                    /\ UNCHANGED server_queue
               \/ \E history \in HistoryEntries :
                    /\ w' = [w EXCEPT !.polls = @ + 1, !.history = history]
                    /\ wret' = CheckHistory(history)
                    /\ server_queue' = IF history.present
                                       THEN server_queue \ {w.prompt_id}
                                       ELSE server_queue
                    /\ pc' = IF CheckHistory(history).kind = "none"
                             THEN "get_queue" ELSE "wait_done"
    /\ UNCHANGED <<caller, pureVars, handlerVars, api, calls>>

\* get_queue, the search for the prompt in queue_running + queue_pending,
\* and the sleep that both branches end with, whether the prompt is listed
\* (in_queue) or not.  The server lists a prompt it holds; one it does not
\* list is no longer in its queue.  An item that is no pair makes item[1]
\* raise.
PollQueue ==
    /\ pc = "get_queue"
    /\ \/ \E e \in RequestErrors \cup {Exc("IndexError", "list index out of range")} :
            /\ wret' = Propagate(e).wret
            /\ pc' = Propagate(e).pc
            /\ w' = [w EXCEPT !.exc = e]
            /\ UNCHANGED server_queue
       \/ \E in_queue \in BOOLEAN :
            /\ in_queue => w.prompt_id \in server_queue
            /\ server_queue' = IF in_queue THEN server_queue
                               ELSE server_queue \ {w.prompt_id}
            /\ w' = [w EXCEPT !.elapsed = @ + w.check_interval]
            /\ pc' = "wait_for_completion"
            /\ UNCHANGED wret
    /\ UNCHANGED <<caller, trace, pureVars, handlerVars, api, calls>>

----------------------------------------------------------------------------
(* rp_handler.handler: values *)

Unbound == [t |-> "unbound", s |-> <<>>, n |-> 0]   \* a local not yet assigned

\* job_input.get(field, default)
Get(job_input, field, default) ==
    IF Has(job_input, field) THEN job_input[field] ELSE default

\* INPUT_DIR / f"{job_id}{suffix}"
InputPath(job_id, suffix) == PyStr(<<"/workspace/input/", job_id, suffix>>)

\* a number as a float, in quarters
ToFloat(v) == IF v.t = "float" THEN Finite(v.n) ELSE Finite(4 * v.n)

\* The value of the 'error' key of a result: the validator's message, or a
\* text with what it interpolates.
ErrorValue(msg, text, arg) == [msg |-> msg, text |-> text, arg |-> arg]
NoErrorValue == ErrorValue(NoError, "", "")

NoOutput ==
    [video_url |-> <<>>, duration |-> Finite(0), fps |-> Absent, frames |-> Absent,
     width |-> Absent, height |-> Absent, file_size |-> 0]
NoMetadata == [job_id |-> "", prompt_id |-> Absent]

\* The dictionary handler returns; has_* tell which keys it holds.  The
\* clock readings (processing_time, timestamp) are left out.
NoResponse ==
    [status |-> "", has_error |-> FALSE, error |-> NoErrorValue,
     has_error_type |-> FALSE, error_type |-> "", has_output |-> FALSE,
     output |-> NoOutput, has_metadata |-> FALSE, metadata |-> NoMetadata]

\* {"status": "error", "error": error}
ErrorResponse(error) ==
    [NoResponse EXCEPT !.status = "error", !.has_error = TRUE, !.error = error]

\* the except clause: {"status": "error", "error": str(e),
\* "error_type": type(e).__name__}
ExceptResponse(e) ==
    [NoResponse EXCEPT !.status = "error", !.has_error = TRUE,
                       !.error = ErrorValue(NoError, e.text, ""),
                       !.has_error_type = TRUE, !.error_type = e.type]

\* the response of step 11
SuccessResponse(loc, duration, file_size) ==
    [NoResponse EXCEPT
        !.status = "success", !.has_output = TRUE, !.has_metadata = TRUE,
        !.output = [video_url |-> loc.video_url, duration |-> duration,
                    fps |-> loc.fps, frames |-> loc.num_frames, width |-> loc.width,
                    height |-> loc.height, file_size |-> file_size],
        !.metadata = [job_id |-> loc.job_id, prompt_id |-> loc.prompt_id]]

----------------------------------------------------------------------------
(* rp_handler.handler: the workflow graph and step 5 *)

InputKeys ==
    {"text", "num_frames", "width", "height", "cfg_scale", "steps", "seed",
     "audio", "image", "filename_prefix"}

NoInputs == [k \in InputKeys |-> Absent]

\* a node: class_type "" is a node without that key, has_inputs FALSE a
\* node without the key 'inputs'
Node(class_type, has_inputs, inputs) ==
    [class_type |-> class_type, has_inputs |-> has_inputs, inputs |-> inputs]

\* A chain whose LoadImage branch does not look at reference_image_path.
BranchImageAlways(node, loc) ==
    CASE node.class_type = "CLIPTextEncode" -> "text"
      [] node.class_type = "LTX2VideoGeneration" -> "video"
      [] node.class_type = "LoadAudio" -> "audio"
      [] node.class_type = "LoadImage" -> "image"
      [] OTHER -> ""

\* the branch of the if/elif chain the node takes, "" when none
Branch(node, loc) ==
    CASE node.class_type = "CLIPTextEncode" -> "text"
      [] node.class_type = "LTX2VideoGeneration" -> "video"
      [] node.class_type = "LoadAudio" -> "audio"
      [] node.class_type = "LoadImage" /\ loc.reference_image_path.t = "str" -> "image"
      [] OTHER -> ""

UpdateNode(node, loc) ==
    LET b == Branch(node, loc)
    IN  CASE b = "text" -> [node EXCEPT !.inputs["text"] = loc.prompt]
          [] b = "video" ->
                [node EXCEPT !.inputs["num_frames"] = loc.num_frames,
                             !.inputs["width"] = loc.width,
                             !.inputs["height"] = loc.height,
                             !.inputs["cfg_scale"] = loc.cfg_scale,
                             !.inputs["steps"] = loc.steps,
                             !.inputs["seed"] = loc.seed]
          [] b = "audio" -> [node EXCEPT !.inputs["audio"] = loc.audio_path]
          [] b = "image" -> [node EXCEPT !.inputs["image"] = loc.reference_image_path]
          [] OTHER -> node

\* node['inputs'] raises KeyError for a node of a rewritten class that has
\* no 'inputs'
UpdateRaises(workflow, loc) ==
    \E id \in DOMAIN workflow :
        Branch(workflow[id], loc) # "" /\ ~workflow[id].has_inputs

\* the loop over workflow.items()
UpdateWorkflow(workflow, loc) ==
    [id \in DOMAIN workflow |-> UpdateNode(workflow[id], loc)]

NoWorkflow == [id \in {} |-> Node("", FALSE, NoInputs)]

\* The graphs the workflow file may hold: a lipsync graph with two text
\* encoders, the empty graph of the tests, and a graph whose LoadAudio node
\* has no inputs.
LipsyncWorkflow ==
    [id \in {"1", "2", "3", "4", "5", "6"} |->
        CASE id = "1" ->
                Node("CLIPTextEncode", TRUE,
                     [NoInputs EXCEPT !["text"] = PyStr(<<"a portrait">>)])
          [] id = "2" ->
                Node("CLIPTextEncode", TRUE,
                     [NoInputs EXCEPT !["text"] = PyStr(<<"blurry">>)])
          [] id = "3" ->
                Node("LTX2VideoGeneration", TRUE,
                     [NoInputs EXCEPT !["num_frames"] = PyInt(97),
                                      !["width"] = PyInt(768),
                                      !["text"] = PyStr(<<"unused">>)])
          [] id = "4" ->
                Node("LoadAudio", TRUE,
                     [NoInputs EXCEPT !["audio"] = PyStr(<<"input.wav">>)])
          [] id = "5" ->
                Node("LoadImage", TRUE,
                     [NoInputs EXCEPT !["image"] = PyStr(<<"face.png">>)])
          [] OTHER ->
                Node("SaveVideo", TRUE,
                     [NoInputs EXCEPT !["filename_prefix"] = PyStr(<<"out">>),
                                      !["audio"] = PyStr(<<"4">>)]) ]

BrokenWorkflow == [id \in {"1"} |-> Node("LoadAudio", FALSE, NoInputs)]

Workflows == {LipsyncWorkflow, NoWorkflow, BrokenWorkflow}

----------------------------------------------------------------------------
(* rp_handler.handler: the steps *)

\* the arguments handler passes to wait_for_completion
HandlerTimeout == 300
HandlerCheckInterval == 2

\* the local variables at entry: job_input and job_id
HandlerFrame(j) ==
    [job_input |-> j.input, job_id |-> IF j.id = "" THEN "unknown" ELSE j.id,
     validation_error |-> NoError,
     prompt |-> Unbound, audio_url |-> Unbound, reference_image_url |-> Unbound,
     num_frames |-> Unbound, fps |-> Unbound, width |-> Unbound, height |-> Unbound,
     cfg_scale |-> Unbound, steps |-> Unbound, seed |-> Unbound,
     audio_path |-> Unbound, reference_image_path |-> Unbound,
     workflow |-> NoWorkflow, prompt_id |-> Unbound, success |-> FALSE,
     result |-> NoHistory, video_filename |-> "", video_exists |-> "unchecked",
     video_url |-> <<>>, ret |-> NoResponse]

\* A handler that posts the prompt again when waiting for it failed.
LeaveRetrying(loc, response, step) ==
    /\ h' = [loc EXCEPT !.ret = response]
    /\ failed_at' = step
    /\ pc' = IF step = "wait_for_completion" THEN "queue_prompt" ELSE "finally"

\* A return statement or the except clause inside the try: the value to
\* return is kept and the finally block runs.
Leave(loc, response, step) ==
    /\ h' = [loc EXCEPT !.ret = response]
    /\ failed_at' = step
    /\ pc' = "finally"

\* A handler that returns early only when a required field is missing.
RejectedWhenMissing(validation_error) ==
    validation_error.kind = "Missing required field"

\* "if validation_error:"
Rejected(validation_error) == validation_error # NoError

\* Step 1: validate_input, the early return, and the extraction of the
\* parameters with their defaults.  A job whose 'input' is None makes
\* validate_input raise.
Validate ==
    /\ pc = "handler"
    /\ trace' = Log(trace, "validate")
    /\ IF job.input_kind = "none"
       THEN Leave(h, ExceptResponse(Exc("TypeError",
                     "argument of type 'NoneType' is not iterable")), "validate")
       ELSE LET validation_error == validate_input(h.job_input)
                loc == [h EXCEPT !.validation_error = validation_error]
            IN  IF Rejected(validation_error)
                THEN Leave(loc, ErrorResponse(ErrorValue(validation_error, "", "")),
                           "validate")
                ELSE /\ h' = [loc EXCEPT
                            !.prompt = h.job_input["prompt"],
                            !.audio_url = h.job_input["audio_url"],
                            !.reference_image_url =
                                Get(h.job_input, "reference_image_url", PyNone),
                            !.num_frames = Get(h.job_input, "num_frames", PyNone),
                            !.fps = Get(h.job_input, "fps", PyInt(24)),
                            !.width = Get(h.job_input, "width", PyInt(512)),
                            !.height = Get(h.job_input, "height", PyInt(768)),
                            !.cfg_scale = Get(h.job_input, "cfg_scale", PyFloat(28)),
                            !.steps = Get(h.job_input, "steps", PyInt(30)),
                            !.seed = Get(h.job_input, "seed", PyInt(-1))]
                     /\ pc' = "download_audio"
                     /\ UNCHANGED failed_at
    /\ UNCHANGED <<pureVars, clientVars, job, files, posts, uploads, outcome, caller, w, wret>>

\* What download_file does: the file is written whole, nothing is written
\* (the request failed), or a part is written before the stream breaks.
DownloadOutcomes == {"ok", "failed", "partial"}
DownloadError == Exc("ConnectionError", "download failed")

\* Step 2, first half: the audio download.
DownloadAudio ==
    /\ pc = "download_audio"
    /\ trace' = Log(trace, "download_audio")
    /\ LET audio_path == InputPath(h.job_id, "_audio.mp3")
           loc == [h EXCEPT !.audio_path = audio_path]
       IN  \E o \in DownloadOutcomes :
             /\ files' = IF o = "failed" THEN files ELSE files \cup {audio_path.s}
             /\ IF o = "ok"
                THEN /\ h' = loc
                     /\ pc' = IF loc.num_frames = PyNone
                              THEN "get_duration" ELSE "download_image"
                     /\ UNCHANGED failed_at
                ELSE Leave(loc, ExceptResponse(DownloadError), "download_audio")
    /\ UNCHANGED <<pureVars, clientVars, job, posts, uploads, outcome, caller, w, wret>>

\* the durations ffprobe reports, in quarters of a second: 0.5 s, 5 s, 50 s
AudioDurations == {Finite(2), Finite(20), Finite(200)}

\* What get_duration_from_audio returns: the duration ffprobe printed, 5.0
\* when ffprobe failed or printed no number; it raises when ffprobe cannot
\* be run.
DurationOutcomes ==
    {[kind |-> "return", value |-> d] : d \in AudioDurations}
        \cup {[kind |-> "FileNotFoundError", value |-> Finite(0)]}

\* Step 2, second half: num_frames from the audio duration.
GetDuration ==
    /\ pc = "get_duration"
    /\ \E d \in DurationOutcomes :
         IF d.kind # "return"
         THEN Leave(h, ExceptResponse(Exc(d.kind, "ffprobe")), "get_duration")
         ELSE LET n == calculate_num_frames(d.value, ToFloat(h.fps))
              IN  IF n.kind # "return"
                  THEN Leave(h, ExceptResponse(Exc(n.kind, "cannot convert float")),
                             "get_duration")
                  ELSE /\ h' = [h EXCEPT !.num_frames = PyInt(n.value)]
                       /\ pc' = "download_image"
                       /\ UNCHANGED failed_at
    /\ UNCHANGED <<pureVars, clientVars, job, files, posts, uploads, outcome, caller, w, wret, trace>>

\* Step 3: the reference image, when a URL was given.
DownloadImage ==
    /\ pc = "download_image"
    /\ IF ~Truthy(h.reference_image_url)
       THEN /\ h' = [h EXCEPT !.reference_image_path = PyNone]
            /\ pc' = "load_workflow"
            /\ UNCHANGED <<files, failed_at, trace>>
       ELSE LET reference_image_path == InputPath(h.job_id, "_reference.jpg")
                loc == [h EXCEPT !.reference_image_path = reference_image_path]
            IN  /\ trace' = Log(trace, "download_image")
                /\ \E o \in DownloadOutcomes :
                     /\ files' = IF o = "failed" THEN files
                                 ELSE files \cup {reference_image_path.s}
                     /\ IF o = "ok"
                        THEN /\ h' = loc
                             /\ pc' = "load_workflow"
                             /\ UNCHANGED failed_at
                        ELSE Leave(loc, ExceptResponse(DownloadError), "download_image")
    /\ UNCHANGED <<pureVars, clientVars, job, posts, uploads, outcome, caller, w, wret>>

\* Step 4: open and json.load of the workflow file.
LoadWorkflow ==
    /\ pc = "load_workflow"
    /\ \/ \E e \in {Exc("FileNotFoundError", "No such file or directory"),
                    Exc("JSONDecodeError", "Expecting value")} :
            Leave(h, ExceptResponse(e), "load_workflow")
       \/ \E workflow \in Workflows :
            /\ h' = [h EXCEPT !.workflow = workflow]
            /\ pc' = "update_workflow"
            /\ UNCHANGED failed_at
    /\ UNCHANGED <<pureVars, clientVars, job, files, posts, uploads, outcome, caller, w, wret, trace>>

\* Step 5: the parameter substitution.
UpdateParameters ==
    /\ pc = "update_workflow"
    /\ IF UpdateRaises(h.workflow, h)
       THEN Leave(h, ExceptResponse(Exc("KeyError", "'inputs'")), "update_workflow")
       ELSE /\ h' = [h EXCEPT !.workflow = UpdateWorkflow(h.workflow, h)]
            /\ pc' = "queue_prompt"
            /\ UNCHANGED failed_at
    /\ UNCHANGED <<pureVars, clientVars, job, files, posts, uploads, outcome, caller, w, wret, trace>>

\* Step 6: queue_prompt with the answer of the server to POST /prompt, which
\* gives a prompt an id no prompt in its queue has; then
\* wait_for_completion is entered.
QueuePrompt ==
    /\ pc = "queue_prompt"
    /\ trace' = Log(trace, "post_prompt")
    /\ posts' = posts + 1
    /\ \E reply \in PromptReplies :
         LET prompt_id == queue_prompt(reply)
         IN  /\ reply.prompt_id \notin server_queue
             /\ api' = Call("queue_prompt", reply, prompt_id, api.n + 1)
             /\ server_queue' = Accept(server_queue, reply)
             /\ IF prompt_id.kind = "raise"
                THEN /\ Leave(h, ExceptResponse(prompt_id.exc), "queue_prompt")
                     /\ UNCHANGED <<w, wret, caller>>
                ELSE /\ h' = [h EXCEPT !.prompt_id = prompt_id.value]
                     /\ w' = WaitFrame(prompt_id.value, HandlerTimeout,
                                       HandlerCheckInterval)
                     /\ wret' = Running
                     /\ caller' = "handler"
                     /\ pc' = "wait_for_completion"
                     /\ UNCHANGED failed_at
    /\ UNCHANGED <<pureVars, job, files, uploads, outcome, calls>>

\* result.get('outputs', {}).get('video', {}).get('filename'): "" is None
VideoFilename(result) == IF result.outputs = "video" THEN result.video ELSE ""

\* A handler that uploads without looking for the file.
VideoMissingIgnored(exists) == FALSE

\* "if not video_path.exists():"
VideoMissing(exists) == ~exists

\* Steps 7 and 8: the outcome of wait_for_completion (whose frame is gone
\* once it has returned), the video filename and video_path.exists().
AfterWait ==
    /\ pc = "wait_done"
    /\ caller = "handler"
    /\ IF wret.kind = "raise"
       THEN Leave(h, ExceptResponse(wret.exc), "wait_for_completion")
       ELSE LET loc == [h EXCEPT !.success = wret.success, !.result = wret.result]
            IN  IF ~loc.success
                THEN Leave(loc,
                           ErrorResponse(ErrorValue(NoError,
                               IF loc.result.has_error THEN loc.result.error
                               ELSE "Unknown error during processing", "")),
                           "wait_for_completion")
                ELSE IF loc.result.outputs = "null"
                THEN Leave(loc, ExceptResponse(Exc("AttributeError",
                               "'NoneType' object has no attribute 'get'")), "output")
                ELSE IF VideoFilename(loc.result) = ""
                THEN Leave(loc, ErrorResponse(ErrorValue(NoError, "No video generated", "")),
                           "output")
                ELSE LET loc2 == [loc EXCEPT !.video_filename = VideoFilename(loc.result)]
                     IN  \E exists \in BOOLEAN :
                           IF VideoMissing(exists)
                           THEN Leave([loc2 EXCEPT !.video_exists = "no"],
                                      ErrorResponse(ErrorValue(NoError,
                                          "Output video not found: ", loc2.video_filename)),
                                      "output")
                           ELSE /\ h' = [loc2 EXCEPT !.video_exists =
                                                        IF exists THEN "yes" ELSE "no"]
                                /\ pc' = "upload_file"
                                /\ UNCHANGED failed_at
    /\ w' = NoFrame
    /\ UNCHANGED <<pureVars, clientVars, job, files, posts, uploads, outcome, caller, wret, trace>>

\* f"videos/{job_id}/{video_filename}"
S3Key(job_id, video_filename) == <<"videos/", job_id, "/", video_filename>>

\* _generate_url: the key after the endpoint's or the bucket's base URL
UrlBases == {"https://bucket.s3.us-east-1.amazonaws.com/", "https://spaces.example/bucket/"}

\* Step 9: upload_file.
Upload ==
    /\ pc = "upload_file"
    /\ trace' = Log(trace, "upload")
    /\ LET s3_key == S3Key(h.job_id, h.video_filename)
       IN  /\ uploads' = uploads \cup {s3_key}
           /\ \/ Leave(h, ExceptResponse(Exc("ClientError", "upload failed")),
                       "upload_file")
              \/ \E base \in UrlBases :
                   /\ h' = [h EXCEPT !.video_url = <<base>> \o s3_key]
                   /\ pc' = "respond"
                   /\ UNCHANGED failed_at
    /\ UNCHANGED <<pureVars, clientVars, job, files, posts, outcome, caller, w, wret>>

\* Steps 10 and 11: video_path.stat(), the duration once more, and the
\* success response.
Respond ==
    /\ pc = "respond"
    /\ \/ Leave(h, ExceptResponse(Exc("FileNotFoundError", "stat")), "respond")
       \/ \E d \in DurationOutcomes, file_size \in {0, 15728640} :
            IF d.kind # "return"
            THEN Leave(h, ExceptResponse(Exc(d.kind, "ffprobe")), "respond")
            ELSE /\ h' = [h EXCEPT !.ret = SuccessResponse(h, d.value, file_size)]
                 /\ pc' = "finally"
                 /\ UNCHANGED failed_at
    /\ UNCHANGED <<pureVars, clientVars, job, files, posts, uploads, outcome, caller, w, wret, trace>>

\* A finally block that catches only the failures of unlink.
CleanupCaughtOSError(exc) == exc.type = "OSError"

\* The exceptions the try inside the finally block catches: "except
\* Exception" catches every exception the block raises.
CleanupCaught(exc) == exc.type # ""

\* A finally block that removes the audio file only.
CleanupAudioOnly(loc, fs, unlink_audio, unlink_reference) ==
    IF loc.audio_path = Unbound
    THEN [files |-> fs, exc |-> Exc("UnboundLocalError", "audio_path")]
    ELSE IF loc.audio_path.s \in fs /\ ~unlink_audio
    THEN [files |-> fs, exc |-> Exc("OSError", "unlink")]
    ELSE [files |-> fs \ {loc.audio_path.s}, exc |-> NoExc]

\* The finally block: what is left of files and the exception that ended
\* the block early (NoExc when it ran to its end).  unlink_audio and
\* unlink_reference tell whether the unlink succeeds.
Cleanup(loc, fs, unlink_audio, unlink_reference) ==
    IF loc.audio_path = Unbound
    THEN [files |-> fs, exc |-> Exc("UnboundLocalError", "audio_path")]
    ELSE IF loc.audio_path.s \in fs /\ ~unlink_audio
    THEN [files |-> fs, exc |-> Exc("OSError", "unlink")]
    ELSE LET fs2 == fs \ {loc.audio_path.s}
         IN  IF loc.reference_image_path = Unbound
             THEN [files |-> fs2, exc |-> Exc("UnboundLocalError", "reference_image_path")]
             ELSE IF loc.reference_image_path.t = "str"
                     /\ loc.reference_image_path.s \in fs2 /\ ~unlink_reference
             THEN [files |-> fs2, exc |-> Exc("OSError", "unlink")]
             ELSE [files |-> IF loc.reference_image_path.t = "str"
                             THEN fs2 \ {loc.reference_image_path.s} ELSE fs2,
                   exc |-> NoExc]

\* handler returned response; swallowed is the exception the finally block
\* caught, NoExc when it raised none, removed the files it deleted
Returned(response, swallowed, removed) ==
    [kind |-> "return", value |-> response, exc |-> swallowed, removed |-> removed]
Raised(exc, removed) ==
    [kind |-> "raise", value |-> NoResponse, exc |-> exc, removed |-> removed]
NotReturned == [kind |-> "none", value |-> NoResponse, exc |-> NoExc, removed |-> {}]

\* The finally block, then the pending return: an exception the block does
\* not catch replaces the return value.
Finally ==
    /\ pc = "finally"
    /\ \E unlink_audio, unlink_reference \in BOOLEAN :
         LET c == Cleanup(h, files, unlink_audio, unlink_reference)
         IN  /\ files' = c.files
             /\ outcome' = IF c.exc = NoExc \/ CleanupCaught(c.exc)
                           THEN Returned(h.ret, c.exc, files \ c.files)
                           ELSE Raised(c.exc, files \ c.files)
    /\ pc' = "done"
    /\ UNCHANGED <<pureVars, clientVars, job, h, posts, uploads, failed_at, caller, w, wret, trace>>

----------------------------------------------------------------------------
(* The state before any call *)

\* a job: id "" is a job without 'id'; input_kind tells whether 'input' is
\* a dictionary, None or absent (job.get('input', {}) is then {})
Job(id, input_kind, input) == [id |-> id, input_kind |-> input_kind, input |-> input]

EmptyInput == [f \in Fields |-> Absent]

NoJob == Job("", "absent", EmptyInput)

IdleHandler ==
    /\ job = NoJob
    /\ h = HandlerFrame(NoJob)
    /\ files = {}
    /\ posts = 0
    /\ uploads = {}
    /\ failed_at = ""
    /\ outcome = NotReturned

IdleClient ==
    /\ api = NoCall
    /\ server_queue = {}
    /\ calls = 0

IdleWait ==
    /\ caller = ""
    /\ w = NoFrame
    /\ wret = Running
    /\ trace = <<>>

----------------------------------------------------------------------------
(* A call of validate_input on a job input *)

Idle == [kind |-> "none", value |-> 0]

\* the longest duration, in seconds, and the number of fields in which an
\* input differs from the valid input of the tests
MaxDuration == 45
MaxDeviations == 2

Chr(c) == <<c>>

\* tests/test_handler.py test_valid_input: a prompt and an https audio_url
BaseInput ==
    [f \in Fields |->
        IF f = "prompt" THEN PyStr(Chr("a"))
        ELSE IF f = "audio_url" THEN PyStr(Https \o Chr("a"))
        ELSE Absent]

NumericOptions(lo, hi) ==
    << Absent, PyInt(lo), PyInt(hi), PyInt(lo - 1),
       IF hi = 2147483647 THEN PyBigInt(1) ELSE PyInt(hi + 1),
       PyFloat(4 * lo - 1), PyFloat(4 * lo + 2), PyStr(Chr("5")),
       PyBool(TRUE), PyNaN >>

RangeOf(field) ==
    LET i == CHOOSE j \in 1..Len(numeric_fields) : numeric_fields[j].field = field
    IN  numeric_fields[i]

Options(field) ==
    CASE field = "prompt" ->
            << Absent, PyNone, PyInt(5), PyStr(<<>>), PyStr(<<" ", "\t">>),
               PyStr(<<" ", "a", " ">>), PyStr(Chr("a")) >>
      [] field = "audio_url" ->
            << Absent, PyNone, PyInt(5), PyStr(<<>>), PyStr(Http \o Chr("a")),
               PyStr(Https), PyStr(<<"f", "t", "p", ":", "/", "/", "a">>),
               PyStr(<<"h", "t", "t", "p", ":", "/">>),
               PyStr(<<"H", "T", "T", "P", ":", "/", "/", "a">>),
               PyStr(Chr(" ") \o Http \o Chr("a")) >>
      [] field = "reference_image_url" ->
            << Absent, PyNone, PyStr(<<>>), PyInt(0), PyList(0), PyInt(7),
               PyList(1), PyStr(Http \o Chr("r")), PyStr(Https \o Chr("r")),
               PyStr(<<"f", "t", "p", ":", "/", "/", "r">>) >>
      [] OTHER -> NumericOptions(RangeOf(field).lo, RangeOf(field).hi)

\* BaseInput with the fields of D set to the options c chooses
Deviate(D, c) ==
    [f \in Fields |-> IF f \in D THEN Options(f)[c[f]] ELSE BaseInput[f]]

InitValidate ==
    /\ pc = "validate_input"
    /\ \E D \in SUBSET Fields :
         /\ Cardinality(D) <= MaxDeviations
         /\ \E c \in [D -> 1..10] :
              /\ \A f \in D : c[f] <= Len(Options(f))
              /\ vin = Deviate(D, c)
    /\ vout = NoError
    /\ cin = [duration |-> Finite(0), fps |-> Finite(0)]
    /\ cout = Idle
    /\ IdleHandler
    /\ IdleWait
    /\ IdleClient

CallValidate ==
    /\ pc = "validate_input"
    /\ vout' = validate_input(vin)
    /\ pc' = "validated"
    /\ UNCHANGED <<vin, cin, cout, handlerVars, waitVars, clientVars>>

NextValidate == CallValidate

SpecValidate == InitValidate /\ [][NextValidate]_vars

----------------------------------------------------------------------------
(* A call of calculate_num_frames *)

\* durations from -2 s to MaxDuration s in quarters of a second, and the
\* huge, infinite and NaN floats
Durations ==
    {Finite(q) : q \in -8..(4 * MaxDuration)}
        \cup {Huge(1), Huge(-1), Inf(1), Inf(-1), NaN}

\* fps as ints (in quarters) and one float, 23.75
FpsValues == {Finite(4 * f) : f \in {-1, 0, 1, 24, 30, 60}} \cup {Finite(95)}

InitCalc ==
    /\ pc = "calculate_num_frames"
    /\ cin \in [duration : Durations, fps : FpsValues]
    /\ cout = Idle
    /\ vin = BaseInput
    /\ vout = NoError
    /\ IdleHandler
    /\ IdleWait
    /\ IdleClient

CallCalc ==
    /\ pc = "calculate_num_frames"
    /\ cout' = calculate_num_frames(cin.duration, cin.fps)
    /\ pc' = "calculated"
    /\ UNCHANGED <<vin, vout, cin, handlerVars, waitVars, clientVars>>

NextCalc == CallCalc

SpecCalc == InitCalc /\ [][NextCalc]_vars


----------------------------------------------------------------------------
(* Calls of the client's queue_prompt and health_check, one after another *)

\* the number of calls
MaxRequests == 4

InitClient ==
    /\ pc = "client"
    /\ IdleClient
    /\ IdleHandler
    /\ IdleWait
    /\ vin = BaseInput
    /\ vout = NoError
    /\ cin = [duration |-> Finite(0), fps |-> Finite(0)]
    /\ cout = Idle

CallHealthCheck ==
    /\ pc = "client"
    /\ api.n < MaxRequests
    /\ \E reply \in StatsReplies :
         api' = Call("health_check", reply, health_check(reply), api.n + 1)
    /\ UNCHANGED <<pc, pureVars, handlerVars, waitVars, server_queue, calls>>

CallQueuePrompt ==
    /\ pc = "client"
    /\ api.n < MaxRequests
    /\ \E reply \in PromptReplies :
         /\ reply.prompt_id \notin server_queue
         /\ api' = Call("queue_prompt", reply, queue_prompt(reply), api.n + 1)
         /\ server_queue' = Accept(server_queue, reply)
    /\ UNCHANGED <<pc, pureVars, handlerVars, waitVars, calls>>

NextClient == CallHealthCheck \/ CallQueuePrompt

SpecClient == InitClient /\ [][NextClient]_vars
----------------------------------------------------------------------------
(* A call of wait_for_completion *)

\* the largest timeout and check_interval, in seconds
MaxTimeout == 5
MaxInterval == 3

InitWait ==
    /\ pc = "wait_for_completion"
    /\ caller = "direct"
    /\ w \in {WaitFrame(p, t, ci) : p \in PromptIds, t \in 0..MaxTimeout, ci \in 1..MaxInterval}
    /\ server_queue \in {{}, {w.prompt_id}}
    /\ api = NoCall
    /\ calls = 0
    /\ wret = Running
    /\ trace = <<>>
    /\ IdleHandler
    /\ vin = BaseInput
    /\ vout = NoError
    /\ cin = [duration |-> Finite(0), fps |-> Finite(0)]
    /\ cout = Idle

NextWait == PollHistory \/ PollQueue

SpecWait == InitWait /\ [][NextWait]_vars

----------------------------------------------------------------------------
(* A call of handler *)

With(input, field, value) == [input EXCEPT ![field] = value]

\* a job that sets every parameter, with a reference image
FullInput ==
    [f \in Fields |->
        CASE f = "prompt" -> PyStr(<<"h", "i">>)
          [] f = "audio_url" -> PyStr(Http \o Chr("a"))
          [] f = "num_frames" -> PyInt(120)
          [] f = "fps" -> PyInt(30)
          [] f = "width" -> PyInt(640)
          [] f = "height" -> PyInt(480)
          [] f = "cfg_scale" -> PyFloat(30)
          [] f = "steps" -> PyInt(20)
          [] f = "seed" -> PyInt(42)
          [] OTHER -> PyStr(Https \o Chr("r"))]

\* The jobs: without 'input', with None and with {} as input; the jobs of
\* the tests, with and without 'id'; every parameter set; an empty
\* reference_image_url and a float fps; the smallest and the largest
\* num_frames; and three inputs validate_input rejects.
HandlerJobs ==
    { Job("job-1", "absent", EmptyInput),
      Job("job-1", "none", EmptyInput),
      Job("job-1", "dict", EmptyInput),
      Job("job-1", "dict", BaseInput),
      Job("", "dict", BaseInput),
      Job("job-1", "dict", FullInput),
      Job("job-1", "dict",
          With(With(BaseInput, "reference_image_url", PyStr(<<>>)), "fps", PyFloat(95))),
      Job("job-1", "dict",
          With(BaseInput, "audio_url", PyStr(<<"f", "t", "p", ":", "/", "/", "a">>))),
      Job("job-1", "dict", With(BaseInput, "num_frames", PyInt(1))),
      Job("job-1", "dict", With(BaseInput, "num_frames", PyInt(1000))),
      Job("job-1", "dict", With(BaseInput, "num_frames", PyInt(2000))),
      Job("job-1", "dict", With(BaseInput, "audio_url", Absent)) }

Init ==
    /\ pc = "handler"
    /\ job \in HandlerJobs
    /\ h = HandlerFrame(job)
    /\ files = {}
    /\ posts = 0
    /\ uploads = {}
    /\ failed_at = ""
    /\ outcome = NotReturned
    /\ IdleWait
    /\ api = NoCall
    /\ server_queue = {}
    /\ calls = 1
    /\ vin = BaseInput
    /\ vout = NoError
    /\ cin = [duration |-> Finite(0), fps |-> Finite(0)]
    /\ cout = Idle

Next ==
    \/ Validate
    \/ DownloadAudio
    \/ GetDuration
    \/ DownloadImage
    \/ LoadWorkflow
    \/ UpdateParameters
    \/ QueuePrompt
    \/ PollHistory
    \/ PollQueue
    \/ AfterWait
    \/ Upload
    \/ Respond
    \/ Finally

Spec == Init /\ [][Next]_vars


----------------------------------------------------------------------------
(* Calls of handler made one after another by the serverless worker *)

\* the number of calls
MaxCalls == 2

\* the jobs of the calls
CallJobs == {Job("job-1", "dict", BaseInput), Job("job-2", "dict", FullInput)}

InitCalls ==
    /\ pc = "handler"
    /\ job \in CallJobs
    /\ h = HandlerFrame(job)
    /\ files = {}
    /\ posts = 0
    /\ uploads = {}
    /\ failed_at = ""
    /\ outcome = NotReturned
    /\ IdleWait
    /\ api = NoCall
    /\ server_queue = {}
    /\ calls = 1
    /\ vin = BaseInput
    /\ vout = NoError
    /\ cin = [duration |-> Finite(0), fps |-> Finite(0)]
    /\ cout = Idle

\* handler has returned and the worker calls it with the next job: the
\* locals are new, the files in INPUT_DIR and the queue of the server are
\* what the last call left
NextCall ==
    /\ pc = "done"
    /\ calls < MaxCalls
    /\ calls' = calls + 1
    /\ job' \in CallJobs
    /\ h' = HandlerFrame(job')
    /\ posts' = 0
    /\ uploads' = {}
    /\ failed_at' = ""
    /\ outcome' = NotReturned
    /\ caller' = ""
    /\ w' = NoFrame
    /\ wret' = Running
    /\ trace' = <<>>
    /\ api' = NoCall
    /\ pc' = "handler"
    /\ UNCHANGED <<pureVars, files, server_queue>>

NextCalls == Next \/ NextCall

SpecCalls == InitCalls /\ [][NextCalls]_vars
----------------------------------------------------------------------------
(* Properties of handler, under Spec *)

Range(seq) == {seq[i] : i \in 1..Len(seq)}

IsPrefix(s, t) == Len(s) <= Len(t) /\ SubSeq(t, 1, Len(s)) = s

\* C1: handler returns a dictionary and never propagates an exception; the
\* status of the result is 'success' or 'error', and an 'error' result has
\* an 'error' and no 'output', whichever step failed.  Until it has
\* returned, handler can always take a step.
C1_HandlerAlwaysReturns ==
    /\ outcome.kind # "raise"
    /\ pc # "done" => ENABLED Next
    /\ pc = "done" =>
         /\ outcome.kind = "return"
         /\ outcome.value.status \in {"success", "error"}
         /\ outcome.value.status = "error" =>
              outcome.value.has_error /\ ~outcome.value.has_output
         /\ failed_at # "" => outcome.value.status = "error"

\* an upload failed, then the unlink of the finally block failed, and
\* handler returned the error all the same
C1_Witness ==
    /\ pc = "done"
    /\ failed_at = "upload_file"
    /\ outcome.kind = "return"
    /\ outcome.exc.type = "OSError"
    /\ outcome.value.status = "error"

\* the external actions in the order of the claim, for a job with and
\* without a reference image
ExpectedOrder(with_image) ==
    IF with_image
    THEN <<"validate", "download_audio", "download_image", "post_prompt", "poll", "upload">>
    ELSE <<"validate", "download_audio", "post_prompt", "poll", "upload">>

\* C2: the external actions of a handler run occur in the order validate,
\* download audio, download reference image (if given), POST /prompt, poll,
\* upload; upload_file is called only after wait_for_completion returned
\* success with a result that names a video file found in the output
\* directory; and a 'success' response is built only after upload_file
\* returned.
C2_FixedOrder ==
    /\ IsPrefix(trace, ExpectedOrder(Truthy(h.reference_image_url)))
    /\ "upload" \in Range(trace) =>
         /\ wret.kind = "return" /\ wret.success
         /\ wret.result.outputs = "video"
         /\ h.video_filename = wret.result.video
         /\ h.video_exists = "yes"
    /\ uploads # {} <=> "upload" \in Range(trace)
    /\ h.ret.status = "success" \/ outcome.value.status = "success" =>
         /\ "upload" \in Range(trace)
         /\ pc \in {"finally", "done"}
         /\ h.video_url # <<>>

\* a job with a reference image ran to its success response
C2_Witness ==
    /\ pc = "done"
    /\ outcome.value.status = "success"
    /\ trace = ExpectedOrder(TRUE)

FailedBeforeQueueing ==
    {"validate", "download_audio", "get_duration", "download_image", "load_workflow",
     "update_workflow"}

\* C3: a handler call posts at most one prompt: POST /prompt is sent at
\* most once, never again after a failure or a timeout, and not at all when
\* the validation, a download or the workflow load failed.
C3_AtMostOnePrompt ==
    /\ posts <= 1
    /\ failed_at \in FailedBeforeQueueing => posts = 0
    /\ posts = 1 <=> "post_prompt" \in Range(trace)

\* the wait timed out and handler returned with one prompt posted
C3_Witness ==
    /\ pc = "done"
    /\ posts = 1
    /\ failed_at = "wait_for_completion"
    /\ outcome.value.error.text = "Execution timeout"

\* C6: an entry with an 'error' key ends wait_for_completion at that poll
\* with (False, {'error': that value}), also when the entry has outputs or
\* a success status; handler then returns status 'error' with that error
\* and uploads nothing.
C6_ErrorEntryWins ==
    /\ w.history.has_error =>
         /\ pc = "wait_done"
         /\ wret = Return(FALSE, ErrorResult(w.history.error))
    /\ wret.kind = "return" /\ ~wret.success /\ pc \in {"finally", "done"} =>
         /\ h.ret = ErrorResponse(ErrorValue(NoError, wret.result.error, ""))
         /\ uploads = {}
         /\ "upload" \notin Range(trace)
    /\ wret.kind = "return" /\ ~wret.success /\ pc = "done" =>
         outcome.value = h.ret

\* inside handler, the wait has just ended on an entry that has an error,
\* a success status and a video
C6_Witness ==
    /\ pc = "wait_done"
    /\ caller = "handler"
    /\ w.history.has_error
    /\ w.history.status = "success"
    /\ w.history.outputs = "video"
    /\ wret.result = ErrorResult("CUDA out of memory")

\* C9: when validate_input rejects the input (an empty or absent 'input'
\* included), handler returns status 'error' with the validator's message
\* and does nothing outside: no file staged, no prompt posted, no upload.
C9_RejectedInputDoesNothing ==
    /\ job.input_kind \in {"absent", "dict"} /\ job.input = EmptyInput /\ pc # "handler" =>
         h.validation_error = Message("prompt", "Missing required field")
    /\ h.validation_error # NoError =>
         /\ pc \in {"finally", "done"}
         /\ h.ret = ErrorResponse(ErrorValue(h.validation_error, "", ""))
         /\ pc = "done" => outcome.kind = "return" /\ outcome.value = h.ret
         /\ files = {} /\ posts = 0 /\ uploads = {}
         /\ trace = <<"validate">>
         /\ h.audio_path = Unbound

\* a job whose num_frames is out of range was rejected and handler returned
C9_Witness ==
    /\ pc = "done"
    /\ h.validation_error.field = "num_frames"
    /\ outcome.value.status = "error"

----------------------------------------------------------------------------
(* Properties of wait_for_completion, under SpecWait *)

\* the done or error condition of an entry
FinalEntry(history) ==
    /\ history.present
    /\ \/ history.has_error
       \/ history.status = "success"
       \/ history.outputs # "absent"

\* C4: for timeout >= 0 and check_interval > 0, with every request
\* answered and the clock moved by the sleeps only, wait_for_completion
\* polls the history at most floor(timeout / check_interval) + 1 times: after
\* that many polls the next timeout check ends the loop, and until the call
\* has ended it can always take its next step.  When it returns and
\* the entry it fetched last (so every entry it fetched) met neither the done
\* nor the error condition, the return value is
\* (False, {'error': 'Execution timeout'}).
C4_BoundedPolling ==
    /\ w.polls <= (w.timeout \div w.check_interval) + 1
    /\ pc # "wait_done" => ENABLED NextWait
    /\ pc = "wait_for_completion" /\ w.polls = (w.timeout \div w.check_interval) + 1 =>
         w.elapsed > w.timeout
    /\ pc = "wait_done" /\ wret.kind = "return" /\ ~FinalEntry(w.history) =>
         wret = Return(FALSE, ErrorResult("Execution timeout"))
    /\ pc = "wait_done" /\ wret = Return(FALSE, ErrorResult("Execution timeout")) =>
         w.polls = (w.timeout \div w.check_interval) + 1

\* a wait of 5 s polled every 2 s timed out after its third poll
C4_Witness ==
    /\ pc = "wait_done"
    /\ w.timeout = 5 /\ w.check_interval = 2
    /\ w.polls = 3
    /\ wret = Return(FALSE, ErrorResult("Execution timeout"))

\* C5: wait_for_completion returns (True, result) only when the entry it
\* fetched last is non-empty, has no 'error' key and has status_str
\* 'success' or an 'outputs' key, and result is that entry; without such an
\* entry the prompt is not reported as done.
C5_SuccessOnlyWhenDone ==
    wret.kind = "return" /\ wret.success =>
        /\ pc = "wait_done"
        /\ w.history.present
        /\ w.history # EmptyHistory
        /\ ~w.history.has_error
        /\ w.history.status = "success" \/ w.history.outputs # "absent"
        /\ wret.result = w.history

\* after polls that found no entry, an entry with outputs and no success
\* status ended the wait with success
C5_Witness ==
    /\ pc = "wait_done"
    /\ wret.kind = "return" /\ wret.success
    /\ w.polls >= 2
    /\ w.history.status = "error"
    /\ w.history.outputs = "video"

----------------------------------------------------------------------------
(* Properties of validate_input, under SpecValidate *)

\* the inclusive range the claim gives for a numeric field
C7Range(field) ==
    CASE field = "num_frames" -> <<1, 1000>>
      [] field = "fps" -> <<1, 60>>
      [] field = "width" -> <<64, 2048>>
      [] field = "height" -> <<64, 2048>>
      [] field = "cfg_scale" -> <<1, 30>>
      [] field = "steps" -> <<1, 150>>
      [] field = "seed" -> <<-1, 2147483647>>

C7NumericFields == {"num_frames", "fps", "width", "height", "cfg_scale", "steps", "seed"}

\* a number (an int, a bool, which is an int in Python, or a float) within
\* the inclusive range; n counts quarters for a float
WithinRange(v, field) ==
    \/ /\ v.t \in {"int", "bool"}
       /\ C7Range(field)[1] <= v.n /\ v.n <= C7Range(field)[2]
    \/ /\ v.t = "float"
       /\ 4 * C7Range(field)[1] <= v.n
       /\ \/ v.n \div 4 < C7Range(field)[2]
          \/ v.n \div 4 = C7Range(field)[2] /\ v.n % 4 = 0

\* a string that starts with 'http://' or 'https://'
HttpString(v) ==
    /\ v.t = "str"
    /\ \/ Len(v.s) >= 7 /\ \A i \in 1..7 : v.s[i] = Http[i]
       \/ Len(v.s) >= 8 /\ \A i \in 1..8 : v.s[i] = Https[i]

\* the conditions under which the claim calls an input valid; an empty
\* reference_image_url is one that is false in Python (None, '', 0, [])
C7Valid(job_input) ==
    /\ job_input["prompt"].t = "str"
    /\ \E i \in 1..Len(job_input["prompt"].s) : job_input["prompt"].s[i] \notin Whitespace
    /\ HttpString(job_input["audio_url"])
    /\ \A f \in C7NumericFields :
         job_input[f].t # "absent" => WithinRange(job_input[f], f)
    /\ job_input["reference_image_url"].t # "absent"
         /\ Truthy(job_input["reference_image_url"]) =>
              HttpString(job_input["reference_image_url"])

\* C7: validate_input returns None exactly when the prompt is a string
\* that is not blank, audio_url is a string starting with http:// or
\* https://, every numeric field that is present is a number within its
\* inclusive range, and a reference_image_url that is present and not empty
\* is such a string too; in every other case it returns an error message.
C7_ValidExactlyWhen ==
    pc = "validated" =>
        /\ vout = NoError <=> C7Valid(vin)
        /\ vout # NoError => vout.field \in Fields /\ vout.kind # "None"

\* an input with the largest seed and a reference image URL was accepted
C7_Witness ==
    /\ pc = "validated"
    /\ vout = NoError
    /\ vin["seed"] = PyInt(2147483647)
    /\ vin["reference_image_url"].t = "str"
    /\ Truthy(vin["reference_image_url"])

\* the fields in the order the claim gives to their checks: the two missing
\* field checks, then the checks of the values
C8Order ==
    << "prompt", "audio_url", "prompt", "audio_url", "num_frames", "fps", "width",
       "height", "cfg_scale", "steps", "seed", "reference_image_url" >>

\* whether check k of C8Order fails on job_input
C8Fails(job_input, k) ==
    LET v == job_input[C8Order[k]]
    IN  CASE k \in {1, 2} -> v.t = "absent"
          [] k = 3 ->
                /\ v.t # "absent"
                /\ ~(v.t = "str" /\ \E i \in 1..Len(v.s) : v.s[i] \notin Whitespace)
          [] k = 4 -> v.t # "absent" /\ ~HttpString(v)
          [] k = 12 -> v.t # "absent" /\ Truthy(v) /\ ~HttpString(v)
          [] OTHER -> v.t # "absent" /\ ~WithinRange(v, C8Order[k])

C8Failing(job_input) == {k \in 1..Len(C8Order) : C8Fails(job_input, k)}

C8First(job_input) ==
    CHOOSE k \in C8Failing(job_input) : \A m \in C8Failing(job_input) : k <= m

\* C8: the message names the field of the first check that fails, the
\* checks taken in the order missing prompt, missing audio_url, prompt,
\* audio_url, num_frames, fps, width, height, cfg_scale, steps, seed,
\* reference_image_url; a missing field is reported as missing.
C8_FirstFailingCheckWins ==
    pc = "validated" /\ C8Failing(vin) # {} =>
        /\ vout # NoError
        /\ vout.field = C8Order[C8First(vin)]
        /\ C8First(vin) \in {1, 2} <=> vout.kind = "Missing required field"

\* fps and seed are both out of range and the message names fps
C8_Witness ==
    /\ pc = "validated"
    /\ {6, 11} \subseteq C8Failing(vin)
    /\ vout.field = "fps"
    /\ vout.kind = "must be between"

----------------------------------------------------------------------------
(* Properties of calculate_num_frames, under SpecCalc *)

\* C10: for every duration and every fps, zero, negative and very large
\* values included, calculate_num_frames returns an integer from 24 to 1000.
C10_ClampedForEveryInput ==
    pc = "calculated" =>
        /\ cout.kind = "return"
        /\ 24 <= cout.value /\ cout.value <= 1000


\* the product duration * fps of two finite arguments, in sixteenths
C11Product == cin.duration.v * cin.fps.v

\* C11: when the truncated product of duration and fps is from 24 to 1000,
\* calculate_num_frames returns that product (5 s at 24 fps gives 120, 10 s
\* at 30 fps gives 300); below 24 it returns 24 and above 1000 it returns
\* 1000.  The product is one that has a truncation: a finite number.
C11_ProductOrClamp ==
    /\ pc = "calculated" /\ cin.duration.c = "fin" /\ cin.fps.c = "fin" =>
         /\ cout.kind = "return"
         /\ C11Product < 16 * 24 => cout.value = 24
         /\ C11Product >= 16 * 1001 => cout.value = 1000
         /\ 16 * 24 <= C11Product /\ C11Product < 16 * 1001 =>
              16 * cout.value <= C11Product /\ C11Product < 16 * (cout.value + 1)
    /\ pc = "calculated" /\ cin = [duration |-> Finite(20), fps |-> Finite(96)] =>
         cout.value = 120
    /\ pc = "calculated" /\ cin = [duration |-> Finite(40), fps |-> Finite(120)] =>
         cout.value = 300
    /\ pc = "calculated" /\ cin.duration.c = "huge" /\ cin.fps = Finite(4) =>
         cout = [kind |-> "return", value |-> IF cin.duration.v > 0 THEN 1000 ELSE 24]

\* 1.25 s at 23.75 fps, a product of 29.6875, gave 29 frames
C11_Witness ==
    /\ pc = "calculated"
    /\ cin = [duration |-> Finite(5), fps |-> Finite(95)]
    /\ cout = [kind |-> "return", value |-> 29]

----------------------------------------------------------------------------
(* Properties of the parameter substitution, under Spec *)

C12VideoKeys == {"num_frames", "width", "height", "cfg_scale", "steps", "seed"}

\* the inputs of new are those of old but for the keys of written
C12OthersKept(old, new, written) ==
    \A k \in InputKeys \ written : new.inputs[k] = old.inputs[k]

\* what the claim says of one node, old before and new after the pass
C12NodeRewritten(old, new) ==
    /\ new.class_type = old.class_type
    /\ new.has_inputs = old.has_inputs
    /\ CASE old.class_type = "CLIPTextEncode" ->
              /\ new.inputs["text"] = job.input["prompt"]
              /\ C12OthersKept(old, new, {"text"})
         [] old.class_type = "LTX2VideoGeneration" ->
              /\ \A k \in C12VideoKeys :
                    /\ new.inputs[k] = h[k]
                    /\ job.input[k].t # "absent" => new.inputs[k] = job.input[k]
              /\ C12OthersKept(old, new, C12VideoKeys)
         [] old.class_type = "LoadAudio" ->
              /\ new.inputs["audio"] = PyStr(<<"/workspace/input/", h.job_id, "_audio.mp3">>)
              /\ new.inputs["audio"].s \in files
              /\ C12OthersKept(old, new, {"audio"})
         [] old.class_type = "LoadImage" ->
              IF job.input["reference_image_url"].t = "str"
                 /\ job.input["reference_image_url"].s # <<>>
              THEN /\ new.inputs["image"] =
                        PyStr(<<"/workspace/input/", h.job_id, "_reference.jpg">>)
                   /\ new.inputs["image"].s \in files
                   /\ C12OthersKept(old, new, {"image"})
              ELSE new = old
         [] OTHER -> new = old

\* C12: the substitution pass rewrites the graph by node role only: after
\* it every CLIPTextEncode node has the job prompt as 'text', every
\* LTX2VideoGeneration node the job's or default num_frames, width, height,
\* cfg_scale, steps and seed, every LoadAudio node the staged audio path as
\* 'audio', and every LoadImage node the staged reference path as 'image'
\* exactly when a reference image URL was given; the nodes of other
\* classes, the other input keys and the set of node ids stay as they were.
C12_SubstitutionByRole ==
    [][ pc = "update_workflow" /\ pc' = "queue_prompt" =>
          /\ DOMAIN h'.workflow = DOMAIN h.workflow
          /\ \A id \in DOMAIN h.workflow :
                C12NodeRewritten(h.workflow[id], h'.workflow[id]) ]_vars

\* the pass has run over the lipsync graph for a job with a reference
\* image: both text encoders hold the prompt and the LoadImage node the
\* staged path
C12_Witness ==
    /\ pc = "queue_prompt"
    /\ DOMAIN h.workflow = {"1", "2", "3", "4", "5", "6"}
    /\ h.workflow["1"].inputs["text"] = job.input["prompt"]
    /\ h.workflow["2"].inputs["text"] = job.input["prompt"]
    /\ h.workflow["5"].inputs["image"].s = <<"/workspace/input/", "job-1", "_reference.jpg">>
    /\ h.workflow["3"].inputs["seed"] = PyInt(42)

----------------------------------------------------------------------------
(* Properties of the success path of handler, under Spec *)

\* polling succeeded with a result that names a video, the file was found in
\* the output directory and upload_file returned a URL
C13Uploaded ==
    /\ wret.kind = "return" /\ wret.success
    /\ wret.result.outputs = "video"
    /\ h.video_exists = "yes"
    /\ h.video_url # <<>>

\* the success response of the claim
C13Success ==
    /\ outcome.value.status = "success"
    /\ outcome.value.output.video_url = h.video_url
    /\ SubSeq(h.video_url, 2, Len(h.video_url)) =
           <<"videos/", h.job_id, "/", wret.result.video>>
    /\ uploads = {<<"videos/", h.job_id, "/", wret.result.video>>}
    /\ job.id # "" => outcome.value.metadata.job_id = job.id
    /\ outcome.value.metadata.prompt_id = h.prompt_id
    /\ h.prompt_id \in PromptIds

\* C13: when polling succeeds with a result naming outputs.video.filename,
\* the file exists in the output directory and the upload succeeds, handler
\* returns status 'success' with the URL upload_file returned for the key
\* videos/{job_id}/{filename} as output.video_url, and the job's id and the
\* prompt_id of this call in the metadata.
C13_UploadedMeansSuccess ==
    pc = "done" /\ C13Uploaded => C13Success

\* the video was uploaded, then the ffprobe run of the response raised, and
\* handler returned an error
C13_Witness ==
    /\ pc = "done"
    /\ C13Uploaded
    /\ failed_at = "respond"
    /\ outcome.value.status = "error"
    /\ outcome.value.error_type = "FileNotFoundError"
    /\ outcome.value.error.text = "ffprobe"

----------------------------------------------------------------------------
(* Properties of queue_prompt inside handler, under Spec *)

\* the server answered POST /prompt with a JSON dictionary
C14Answered == api.reply.exc = NoExc /\ api.reply.body = "dict"

\* the values of 'prompt_id' that are no prompt id: the key is absent, or its
\* value is empty (None, '', 0)
C14NoPromptId == {Absent, PyNone, PyStr(<<>>), PyInt(0)}

\* C14: queue_prompt returns exactly the 'prompt_id' value of the answer to
\* POST /prompt; when the answer has no prompt_id (absent or empty) it raises
\* ValueError, and handler then returns status 'error' without polling or
\* uploading.
C14_PromptIdOrValueError ==
    api.method = "queue_prompt" /\ C14Answered =>
        /\ api.reply.prompt_id \notin C14NoPromptId =>
             /\ api.result = [kind |-> "return", value |-> api.reply.prompt_id, exc |-> NoExc]
             /\ h.prompt_id = api.reply.prompt_id
             /\ caller = "handler"
             /\ pc \in {"wait_for_completion", "get_queue"} =>
                  w.prompt_id = api.reply.prompt_id
        /\ api.reply.prompt_id \in C14NoPromptId =>
             /\ api.result.kind = "raise"
             /\ api.result.exc.type = "ValueError"
             /\ pc \in {"finally", "done"}
             /\ h.ret.status = "error"
             /\ h.ret.error_type = "ValueError"
             /\ pc = "done" => outcome.kind = "return" /\ outcome.value = h.ret
             /\ "poll" \notin Range(trace) /\ "upload" \notin Range(trace)
             /\ w = NoFrame /\ wret = Running
             /\ uploads = {}

\* the server answered with an empty prompt_id and handler returned the
\* ValueError as an error
C14_Witness ==
    /\ pc = "done"
    /\ api.method = "queue_prompt"
    /\ api.reply = Reply(NoExc, "dict", PyStr(<<>>))
    /\ outcome.value.status = "error"
    /\ outcome.value.error_type = "ValueError"
    /\ posts = 1

----------------------------------------------------------------------------
(* Properties of health_check, under SpecClient *)

\* C15: health_check never raises; it returns True exactly when the GET
\* /system_stats request succeeds and its response can be parsed, and False
\* for every failure of the request.
C15_HealthCheckNeverRaises ==
    api.method = "health_check" =>
        /\ api.result.kind = "return"
        /\ api.result.exc = NoExc
        /\ api.result.value \in {PyBool(TRUE), PyBool(FALSE)}
        /\ api.result.value = PyBool(TRUE) <=>
               api.reply.exc = NoExc /\ api.reply.body \in {"dict", "list"}
        /\ api.reply.exc # NoExc => api.result.value = PyBool(FALSE)

\* the server answered 200 with a body that is not JSON and health_check
\* returned False
C15_Witness ==
    /\ api.method = "health_check"
    /\ api.reply = Reply(NoExc, "not_json", Absent)
    /\ api.result = CallReturn(PyBool(FALSE))

----------------------------------------------------------------------------
(* Properties of the server's queue over several calls, under SpecCalls *)

\* C16: over handler calls made one after another the rendering server
\* holds at most one queued or running prompt of the handler: when a call
\* returns, after an 'Execution timeout' too, the prompt it submitted is no
\* longer queued or running.
C16_OneOutstandingPrompt ==
    /\ Cardinality(server_queue) <= 1
    /\ pc = "done" => server_queue = {}

\* the first call returned with its prompt still in the queue, and the
\* second call has posted its prompt: the server holds two
C16_Witness ==
    /\ calls = 2
    /\ pc = "wait_for_completion"
    /\ Cardinality(server_queue) = 2

----------------------------------------------------------------------------
(* Properties of a failed request during polling, under Spec *)

\* C17: a failed HTTP request during polling (a transport error or a non-2xx
\* answer to GET /history/{id} or GET /queue) is not retried: the exception
\* leaves wait_for_completion at once, no further request goes to the
\* rendering server, nothing is uploaded, and handler returns status 'error'
\* with the text of the exception and an 'error_type'.
C17_PollingFailureNotRetried ==
    /\ w.exc \in RequestErrors =>
         /\ pc = "wait_done"
         /\ wret = Raise(w.exc)
    /\ wret.kind = "raise" /\ wret.exc \in RequestErrors =>
         /\ pc \in {"wait_done", "finally", "done"}
         /\ posts = 1
         /\ uploads = {}
         /\ "upload" \notin Range(trace)
         /\ pc \in {"finally", "done"} =>
              /\ h.ret.status = "error"
              /\ h.ret.has_error /\ h.ret.error.text = wret.exc.text
              /\ h.ret.has_error_type /\ h.ret.error_type = wret.exc.type
              /\ ~h.ret.has_output
         /\ pc = "done" => outcome.kind = "return" /\ outcome.value = h.ret

\* a request of the polling loop was answered with a 500, and handler
\* returned the HTTPError
C17_Witness ==
    /\ pc = "done"
    /\ wret = Raise(Exc("HTTPError", "500 Server Error"))
    /\ outcome.value.error_type = "HTTPError"
    /\ outcome.value.error.text = "500 Server Error"
    /\ failed_at = "wait_for_completion"

----------------------------------------------------------------------------
(* Properties of the staged files, under Spec *)

\* the two files a call stages in the input directory
C18Staged ==
    { <<"/workspace/input/", h.job_id, "_audio.mp3">>,
      <<"/workspace/input/", h.job_id, "_reference.jpg">> }

\* C18: when handler returns, on the success path, on an error return after
\* staging or after a caught exception, a failed or partial audio or image
\* download included, the files {job_id}_audio.mp3 and
\* {job_id}_reference.jpg it staged no longer exist, provided the deletions
\* themselves succeed; and the cleanup never changes the result handler
\* returns.
C18_StagedFilesRemoved ==
    /\ files \subseteq C18Staged
    /\ pc = "done" =>
         /\ outcome.kind = "return"
         /\ outcome.value = h.ret
         /\ outcome.exc.type # "OSError" => files = {}

\* the download of the reference image broke off after writing a part of
\* the file; the finally block deleted both files and handler returned the
\* error of the download
C18_Witness ==
    /\ pc = "done"
    /\ failed_at = "download_image"
    /\ outcome.removed = C18Staged
    /\ files = {}
    /\ outcome.value = ExceptResponse(DownloadError)

----------------------------------------------------------------------------
(* Properties of the frame count, under Spec *)

\* the LTX2VideoGeneration nodes of the graph handler holds
C19VideoNodes ==
    {id \in DOMAIN h.workflow : h.workflow[id].class_type = "LTX2VideoGeneration"}

\* v is a number from lo to hi; n counts quarters for a float
C19Within(v, lo, hi) ==
    \/ v.t \in {"int", "bool"} /\ lo <= v.n /\ v.n <= hi
    \/ v.t = "float" /\ 4 * lo <= v.n /\ v.n <= 4 * hi

\* C19: the frame count sent to the rendering server is within 1..1000: it
\* is the caller's num_frames when one is supplied, otherwise the result of
\* calculate_num_frames, an integer from 24 to 1000; and the 'frames' of a
\* success response is the num_frames put into the LTX2VideoGeneration node.
C19_FrameCountInRange ==
    posts >= 1 =>
        \A id \in C19VideoNodes :
            LET sent == h.workflow[id].inputs["num_frames"]
            IN  /\ C19Within(sent, 1, 1000)
                /\ job.input["num_frames"].t # "absent" => sent = job.input["num_frames"]
                /\ job.input["num_frames"].t = "absent" =>
                     sent.t = "int" /\ C19Within(sent, 24, 1000)
                /\ pc = "done" /\ outcome.value.status = "success" =>
                     outcome.value.output.frames = sent

\* a job without num_frames and an audio of 0.5 s: 24 frames were sent and
\* reported
C19_Witness ==
    /\ pc = "done"
    /\ outcome.value.status = "success"
    /\ job.input["num_frames"] = Absent
    /\ C19VideoNodes = {"3"}
    /\ h.workflow["3"].inputs["num_frames"] = PyInt(24)
    /\ outcome.value.output.frames = PyInt(24)
====
